---- MODULE Spec2Model ----
(***************************************************************************)
(* YT_VIDEO_RAG: the Streamlit session (app.py, YouTubeRAGChat), the       *)
(* vector store manager (vector_db.py, VectorDBManager) and the            *)
(* transcript cache (transcription.py, TranscriptionService).              *)
(*                                                                         *)
(* Strings are sequences of one-character strings.  Python's None is the   *)
(* empty sequence; an optional value is a sequence of length 0 or 1.  A    *)
(* collection name f"video_{n}" is the pair <<"video_", n>>.               *)
(*                                                                         *)
(* In Spec and SpecDB every action is one whole call: a button handler     *)
(* from its first line to its return or st.rerun(), or one method of       *)
(* VectorDBManager.  video_info_cache, which is written and never read, is *)
(* left out.                                                               *)
(*                                                                         *)
(* Spec is the application as a user drives it; SpecDB calls the methods   *)
(* of VectorDBManager directly, with any argument.  The other              *)
(* specifications take one handler or method step by step, or add the      *)
(* restart of the process.                                                 *)
(***************************************************************************)
EXTENDS Integers, Sequences, FiniteSets, TLC

VARIABLES
    hashseed,            \* this process's str-hash randomisation (PYTHONHASHSEED)
    embedding_model,     \* VectorDBManager.embedding_model loaded (TRUE) or None (FALSE)
    store,               \* chromadb client: collection name -> set of documents
    current_collection,  \* VectorDBManager.current_collection
    transcripts,         \* TRANSCRIPT_DIR: cache key -> saved transcript_data
    processed_videos,    \* st.session_state.processed_videos
    current_video,       \* st.session_state.current_video (optional entry)
    session_collection,  \* st.session_state.current_collection
    chat_history,        \* st.session_state.chat_history
    processing,          \* st.session_state.processing
    pc,                  \* the call in flight when a handler is taken step by step
    last                 \* the last call made and what it returned

dbvars == <<hashseed, embedding_model, store, current_collection>>
sessionvars == <<processed_videos, current_video, session_collection, chat_history>>
stepvars == <<processing, pc>>
vars == <<hashseed, embedding_model, store, current_collection, transcripts,
          processed_videos, current_video, session_collection, chat_history,
          processing, pc, last>>

None == <<>>

-----------------------------------------------------------------------------
(* Bounds of the model *)

\* number of distinct video URLs the user may paste
NumVideos == 3
\* number of chat turns kept before the model stops asking questions
MaxTurns == 2
\* chat turns in a conversation of SpecAsk
AskTurns == 4
\* chat turns in a conversation of SpecChat, more than MAX_CHAT_HISTORY
MaxLongChat == 22
\* hash randomisations a process may start with
HashSeeds == {0, 1}

(* Program constants *)

\* app.py: "Limit to 5 recent videos"
LibraryCap == 5
\* vector_db.py: len(chunk.strip()) > 10
MinChunkLen == 10
\* vector_db.py: hash(safe_title) % 1000000
HashMod == 1000000
\* vector_db.py: search(..., n_results=3)
n_results == 3
\* app.py: search_results['documents'][0][:3]
ContextDocs == 3
\* transcription.py: safe_title[:100]
CacheKeyLen == 100
\* config.py: MAX_CHAT_HISTORY
MAX_CHAT_HISTORY == 20

-----------------------------------------------------------------------------
(* Strings *)

AlnumChars == {"a", "b", "c", "d", "e", "f"}
KeptChars == AlnumChars \cup {" ", "-", "_"}
Whitespace == {" "}

\* ordinal of a character, as ord() gives it
Ord(c) ==
    CASE c = "a" -> 97 [] c = "b" -> 98 [] c = "c" -> 99 [] c = "d" -> 100
      [] c = "e" -> 101 [] c = "f" -> 102 [] c = " " -> 32 [] c = "-" -> 45
      [] c = "_" -> 95 [] c = "!" -> 33 [] c = "?" -> 63 [] OTHER -> 0

\* str.rstrip(): drop trailing whitespace
RECURSIVE RStrip(_)
RStrip(s) ==
    IF s = <<>> THEN <<>>
    ELSE IF s[Len(s)] \in Whitespace THEN RStrip(SubSeq(s, 1, Len(s) - 1))
    ELSE s

IsKept(c) == c \in KeptChars

\* "".join(c for c in title if c.isalnum() or c in (' ', '-', '_')).rstrip()
SafeTitle(title) == RStrip(SelectSeq(title, IsKept))

\* s[:n]
Truncate(s, n) == SubSeq(s, 1, IF Len(s) < n THEN Len(s) ELSE n)

\* hash(str) under a given randomisation: a seeded polynomial over the ordinals.
\* Seed 0 keeps the titles of the catalogue apart modulo HashMod; seed 1 is a
\* process in which some of them meet.
RECURSIVE StrFold(_, _)
StrFold(h, s) == IF s = <<>> THEN h ELSE StrFold(h * 31 + Ord(Head(s)), Tail(s))

PyHash(seed, s) == StrFold(7, s) * (1 + seed * 499999)

\* collection_name = f"video_{hash(safe_title) % 1000000}"
CollectionNameFor(seed, title) == <<"video_", PyHash(seed, SafeTitle(title)) % HashMod>>

CollectionName(title) == CollectionNameFor(hashseed, title)

-----------------------------------------------------------------------------
(* The videos behind the URLs: what yt_dlp and Whisper give for each.  A     *)
(* transcript text is the video it was spoken in and the stripped lengths of *)
(* the pieces the text splitter cuts it into (0: a whitespace-only piece).   *)

Catalog == <<
    [title |-> <<"a">>,           uploader |-> "ann", segs |-> <<12, 5, 30, 11, 40>>],
    [title |-> <<"a", "!">>,      uploader |-> "bob", segs |-> <<40>>],
    [title |-> <<"c", " ", "?">>, uploader |-> "cat", segs |-> <<0, 0>>],
    [title |-> <<"e">>,           uploader |-> "eve", segs |-> <<3, 10>>],
    [title |-> <<"b">>,           uploader |-> "dan", segs |-> <<15, 20>>] >>

VideoIds == 1..NumVideos

VideoAt(id) == Catalog[((id - 1) % Len(Catalog)) + 1]

\* the URLs a user may paste: one well-formed URL per video and a malformed one
WatchUrl(id) == [shape |-> "watch", id |-> id]
Urls == {WatchUrl(id) : id \in VideoIds} \cup {[shape |-> "other", id |-> 0]}

\* AudioProcessor.validate_youtube_url: youtube.com/watch?v=, youtu.be/, youtube.com/embed/
validate_youtube_url(url) == url.shape \in {"watch", "short", "embed"}

YdlOutcomes == {"ok", "too_long", "error"}

\* AudioProcessor.get_video_info
get_video_info(url, ydl) ==
    IF ~validate_youtube_url(url) THEN [success |-> FALSE, error |-> "Invalid YouTube URL"]
    ELSE IF ydl = "error" THEN [success |-> FALSE, error |-> "extract_info"]
    ELSE IF ydl = "too_long" THEN [success |-> FALSE, error |-> "Video too long"]
    ELSE [success |-> TRUE, title |-> VideoAt(url.id).title,
          uploader |-> VideoAt(url.id).uploader, url |-> url]

\* AudioProcessor.download_audio, by whether some format strategy produced a file
download_audio(url, dl) ==
    IF dl THEN [success |-> TRUE, audio_path |-> url.id]
    ELSE [success |-> FALSE, error |-> "download"]

\* Whisper's text for the audio of a video
WhisperText(id) == [src |-> id, segs |-> VideoAt(id).segs]

\* len(text.split()): the words of the non-blank pieces
RECURSIVE SumSeq(_)
SumSeq(s) == IF s = <<>> THEN 0 ELSE Head(s) + SumSeq(Tail(s))

WordCount(text) == SumSeq(text.segs)

\* the transcript cache file of a title: f"{safe_title[:100]}.json"
CacheKey(title) == Truncate(SafeTitle(title), CacheKeyLen)

\* TranscriptionService.transcribe_audio: [data, files] where data is the
\* returned dict (error |-> TRUE for {'error': ...}) and files the cache after it
transcribe_audio(audio_path, video_info, tr, files) ==
    IF tr = "error" THEN [data |-> [error |-> TRUE], files |-> files]
    ELSE LET key == CacheKey(video_info.title) IN
         IF key \in DOMAIN files THEN [data |-> files[key], files |-> files]
         ELSE LET td == [error |-> FALSE,
                         title |-> video_info.title,
                         uploader |-> video_info.uploader,
                         transcript |-> WhisperText(audio_path),
                         word_count |-> WordCount(WhisperText(audio_path))]
              IN [data |-> td,
                  files |-> [k \in DOMAIN files \cup {key} |->
                                IF k = key THEN td ELSE files[k]]]

-----------------------------------------------------------------------------
(* VectorDBManager (vector_db.py) over the chromadb client *)

\* client.delete_collection(name), where the name exists
ClientDelete(st, name) == [n \in DOMAIN st \ {name} |-> st[n]]

\* client.get_or_create_collection(name)
ClientGetOrCreate(st, name) ==
    IF name \in DOMAIN st THEN st
    ELSE [n \in DOMAIN st \cup {name} |-> IF n = name THEN {} ELSE st[n]]

CreateWithoutDelete(st, name) == ClientGetOrCreate(st, name)

\* add_transcript: delete the collection of this name if there is one, then create it
CreateOrReplace(st, name) == ClientGetOrCreate(ClientDelete(st, name), name)

\* not text.strip()
IsBlank(text) == \A k \in 1..Len(text.segs) : text.segs[k] = 0

Pieces(text) ==
    [k \in 1..Len(text.segs) |-> [src |-> text.src, piece |-> k, len |-> text.segs[k]]]

IsChunk(p) == p.len > 0

\* RecursiveCharacterTextSplitter.split_text: the non-blank pieces, in order
split_text(text) == SelectSeq(Pieces(text), IsChunk)

\* len(chunk.strip()) > 10
IsMeaningful(chunk) == chunk.len > MinChunkLen

\* the documents, metadatas and ids add_transcript builds from the chunks
TranscriptDocs(td) ==
    LET chunks == split_text(td.transcript) IN
    { [id |-> i - 1,
       document |-> chunks[i],
       metadata |-> [video_title |-> td.title, chunk_index |-> i - 1,
                     uploader |-> td.uploader]] :
      i \in {j \in 1..Len(chunks) : IsMeaningful(chunks[j])} }

\* collection.add(documents, metadatas, ids)
CollectionAdd(coll, docs) == coll \cup docs

\* VectorDBManager.add_transcript on store st with current collection cur;
\* add_ok: collection.add did not raise
add_transcript(td, add_ok, st, cur) ==
    IF ~embedding_model
    THEN [ret |-> None, store |-> st, current |-> cur, why |-> "no_model"]
    ELSE LET name == CollectionName(td.title)
             st1 == CreateOrReplace(st, name)
             docs == TranscriptDocs(td)
         IN IF IsBlank(td.transcript)
            THEN [ret |-> None, store |-> st1, current |-> cur, why |-> "blank"]
            ELSE IF docs = {}
            THEN [ret |-> None, store |-> st1, current |-> cur, why |-> "no_chunks"]
            ELSE IF ~add_ok
            THEN [ret |-> None, store |-> st1, current |-> cur, why |-> "add_error"]
            ELSE [ret |-> name,
                  store |-> [st1 EXCEPT ![name] = CollectionAdd(st1[name], docs)],
                  current |-> name, why |-> "added"]

PreferCurrent(collection_name, cur) == IF cur # None THEN cur ELSE collection_name

\* search: "If no collection specified, use current collection"
ResolveCollection(collection_name, cur) ==
    IF collection_name = None THEN cur ELSE collection_name

Min(a, b) == IF a < b THEN a ELSE b

\* collection.query(n_results=k): the k nearest documents, whichever they are
QueryHits(coll, k) == {h \in SUBSET coll : Cardinality(h) = Min(k, Cardinality(coll))}

MissingAsEmpty(query, collection_name, st, cur) ==
    LET name == ResolveCollection(collection_name, cur) IN
    IF name = None THEN {[ret |-> None, read |-> None, error |-> FALSE]}
    ELSE {[ret |-> <<[documents |-> <<h>>]>>, read |-> name, error |-> FALSE] :
          h \in QueryHits(IF name \in DOMAIN st THEN st[name] ELSE {}, n_results)}

\* VectorDBManager.search: the results it may return.  ret is None or <<results>>,
\* results.documents the list of one list of hits; read is the collection queried.
search(query, collection_name, st, cur) ==
    LET name == ResolveCollection(collection_name, cur) IN
    IF name = None THEN {[ret |-> None, read |-> None, error |-> FALSE]}
    ELSE IF name \notin DOMAIN st THEN {[ret |-> None, read |-> None, error |-> TRUE]}
    ELSE { LET results == [documents |-> <<h>>]
           IN [ret |-> IF results.documents # <<>> THEN <<results>> ELSE None,
               read |-> name, error |-> FALSE] :
           h \in QueryHits(st[name], n_results) }

ForgetCurrent(name, st, cur) ==
    [ret |-> name \in DOMAIN st, store |-> ClientDelete(st, name), current |-> None]

\* VectorDBManager.delete_collection
delete_collection(name, st, cur) ==
    IF name \in DOMAIN st
    THEN [ret |-> TRUE, store |-> ClientDelete(st, name),
          current |-> IF cur = name THEN None ELSE cur]
    ELSE [ret |-> FALSE, store |-> st, current |-> cur]

-----------------------------------------------------------------------------
(* YouTubeRAGChat (app.py) *)

Init ==
    /\ hashseed \in HashSeeds
    /\ embedding_model \in BOOLEAN
    /\ store = <<>>
    /\ current_collection = None
    /\ transcripts = <<>>
    /\ processed_videos = <<>>
    /\ current_video = None
    /\ session_collection = None
    /\ chat_history = <<>>
    /\ processing = FALSE
    /\ pc = None
    /\ last = [op |-> "init"]

EvictionAbove(videos) == Len(videos) > LibraryCap

\* process_video: len(st.session_state.processed_videos) >= 5
EvictionNeeded(videos) == Len(videos) >= LibraryCap

AlwaysCreated(collection_name) == TRUE

\* process_video: "if not collection_name" did not return
IndexCreated(collection_name) == collection_name # None

KeepHistory(history) == history

\* process_video: "Clear previous chat history when processing a new video"
ClearedHistory(history) == <<>>

\* list.remove(video): drop the first element equal to video
RECURSIVE ListRemove(_, _)
ListRemove(videos, video) ==
    IF videos = <<>> THEN <<>>
    ELSE IF Head(videos) = video THEN Tail(videos)
    ELSE <<Head(videos)>> \o ListRemove(Tail(videos), video)

\* main_interface: the button of entry i has key f"delete_{title}"; Streamlit
\* refuses a second element with a key already used and the run ends there
ButtonRendered(videos, i) ==
    \A j, k \in 1..i : j # k => videos[j].title # videos[k].title

\* the sidebar loop ran to its end, so the rest of the page is rendered
SidebarRendered(videos) == ButtonRendered(videos, Len(videos))

ProcessFailed(stage) ==
    /\ last' = [op |-> "process_video", stage |-> stage]
    /\ UNCHANGED sessionvars
    /\ UNCHANGED stepvars

\* process_video(youtube_url), with what the collaborators do in it:
\* ydl (extract_info), dl (download), tr (transcription), add_ok (collection.add)
ProcessVideo(youtube_url, ydl, dl, tr, add_ok) ==
    LET video_info == get_video_info(youtube_url, ydl) IN
    IF ~video_info.success
    THEN ProcessFailed("info") /\ UNCHANGED <<dbvars, transcripts>>
    ELSE
    LET audio_result == download_audio(youtube_url, dl) IN
    IF ~audio_result.success
    THEN ProcessFailed("download") /\ UNCHANGED <<dbvars, transcripts>>
    ELSE
    LET t == transcribe_audio(audio_result.audio_path, video_info, tr, transcripts) IN
    IF t.data.error
    THEN ProcessFailed("transcribe") /\ UNCHANGED <<dbvars, transcripts>>
    ELSE
    LET added == add_transcript(t.data, add_ok, store, current_collection)
        collection_name == added.ret
    IN
    /\ transcripts' = t.files
    /\ UNCHANGED <<hashseed, embedding_model>>
    /\ IF ~IndexCreated(collection_name)
       THEN /\ last' = [op |-> "process_video", stage |-> "index", why |-> added.why]
            /\ UNCHANGED sessionvars
            /\ UNCHANGED stepvars
            /\ store' = added.store
            /\ current_collection' = added.current
       ELSE
       LET processed_video == [title |-> video_info.title,
                               uploader |-> video_info.uploader,
                               url |-> youtube_url,
                               word_count |-> t.data.word_count,
                               collection_id |-> collection_name]
           evict == EvictionNeeded(processed_videos)
           oldest_video == Head(processed_videos)
           deleted == IF evict
                      THEN delete_collection(oldest_video.collection_id,
                                             added.store, added.current)
                      ELSE [ret |-> FALSE, store |-> added.store,
                            current |-> added.current]
           kept == IF evict THEN Tail(processed_videos) ELSE processed_videos
       IN /\ session_collection' = collection_name
          /\ store' = deleted.store
          /\ current_collection' = deleted.current
          /\ processed_videos' = Append(kept, processed_video)
          /\ current_video' = <<processed_video>>
          /\ chat_history' = ClearedHistory(chat_history)
          /\ UNCHANGED stepvars
          /\ last' = [op |-> "process_video", stage |-> "ready", evicted |-> evict,
                      collection |-> collection_name, cleared |-> Len(chat_history)]

\* main_interface: the "Delete" button of library entry i
DeleteVideo(i) ==
    /\ i \in 1..Len(processed_videos)
    /\ ButtonRendered(processed_videos, i)
    /\ LET video == processed_videos[i]
           deleted == delete_collection(video.collection_id, store, current_collection)
       IN /\ store' = deleted.store
          /\ current_collection' = deleted.current
          /\ processed_videos' = ListRemove(processed_videos, video)
          /\ IF current_video = <<video>>
             THEN current_video' = None /\ session_collection' = None
             ELSE UNCHANGED <<current_video, session_collection>>
          /\ last' = [op |-> "delete_video", video |-> video]
    /\ UNCHANGED <<hashseed, embedding_model, transcripts, chat_history, stepvars>>

Prompts == {"q"}
\* what the POST to Ollama does: a 200 with text, a 200 without, another status,
\* requests' Timeout, requests' ConnectionError, any other exception
LLMOutcomes == {"answer", "empty", "status", "timeout", "connection", "exception"}
NoInfo == "I couldn't find relevant information in this video to answer your question."

\* LocalLLM.generate_response: the generated text or the string returned in its place
generate_response(prompt, context, llm) ==
    CASE llm = "answer" -> "answer"
      [] llm = "empty" -> "I couldn't generate a response. Please try again."
      [] llm = "status" -> "Error: Ollama API error"
      [] llm = "timeout" -> "Error: Request timed out."
      [] llm = "connection" -> "Error: Cannot connect to Ollama server."
      [] OTHER -> "Error"

\* documents[0][:3]: the first ContextDocs hits
FirstHits(hits) == QueryHits(hits, ContextDocs)

UnansweredTurns(prompt, response) ==
    IF response = NoInfo
    THEN <<[role |-> "user", content |-> prompt]>>
    ELSE <<[role |-> "user", content |-> prompt],
           [role |-> "assistant", content |-> response]>>

\* handle_user_message: the two chat_history.append calls, first and last statement
Turns(prompt, response) ==
    <<[role |-> "user", content |-> prompt], [role |-> "assistant", content |-> response]>>

\* handle_user_message(prompt, title), reached from display_chat_interface only
\* when a video is active and the page was rendered down to the chat input.
\* search and generate_response catch what they raise, so the "Sorry, I
\* encountered an error" branch is never taken.
handle_user_message(prompt, llm) ==
    /\ current_video # None
    /\ SidebarRendered(processed_videos)
    /\ \E search_results \in search(prompt, session_collection, store, current_collection) :
       \E joined \in (IF search_results.ret # None
                      THEN FirstHits(search_results.ret[1].documents[1]) ELSE {{}}) :
         LET found == search_results.ret # None /\ search_results.ret[1].documents # <<>>
             context == IF found THEN joined ELSE {}
             response == IF found THEN generate_response(prompt, context, llm) ELSE NoInfo
         IN /\ chat_history' = chat_history \o Turns(prompt, response)
            /\ last' = [op |-> "ask", read |-> search_results.read,
                        generated |-> found, context |-> context]
    /\ UNCHANGED <<dbvars, transcripts, processed_videos, current_video, session_collection,
                   stepvars>>

\* a question typed into st.chat_input, in a conversation of at most cap turns
AskWithin(cap, prompt, llm) ==
    /\ Len(chat_history) + 2 <= cap
    /\ handle_user_message(prompt, llm)

Ask(prompt, llm) == AskWithin(MaxTurns, prompt, llm)

\* main_interface: the "Clear Chat History" button
ClearChat ==
    /\ chat_history # <<>>
    /\ SidebarRendered(processed_videos)
    /\ chat_history' = <<>>
    /\ last' = [op |-> "clear_chat"]
    /\ UNCHANGED <<dbvars, transcripts, processed_videos, current_video, session_collection,
                   stepvars>>

\* what the collaborators do during one process_video: each runs only if the
\* steps before it succeeded, so a run is told by its first failure
Run(ydl, dl, tr, add_ok) == [ydl |-> ydl, dl |-> dl, tr |-> tr, add_ok |-> add_ok]

Runs == {Run("ok", TRUE, "ok", TRUE), Run("error", TRUE, "ok", TRUE),
         Run("too_long", TRUE, "ok", TRUE), Run("ok", FALSE, "ok", TRUE),
         Run("ok", TRUE, "error", TRUE), Run("ok", TRUE, "ok", FALSE)}

Next ==
    \/ \E youtube_url \in Urls, run \in Runs :
         ProcessVideo(youtube_url, run.ydl, run.dl, run.tr, run.add_ok)
    \/ \E i \in 1..LibraryCap : DeleteVideo(i)
    \/ \E prompt \in Prompts, llm \in LLMOutcomes : Ask(prompt, llm)
    \/ ClearChat

Spec == Init /\ [][Next]_vars

-----------------------------------------------------------------------------
(* VectorDBManager called directly, with any argument *)

\* the transcript_data dicts a caller may pass: each video's own transcript
TranscriptOf(id) ==
    transcribe_audio(id, get_video_info(WatchUrl(id), "ok"), "ok", <<>>).data

\* a direct caller may pass the transcript of any video of the catalogue
CatalogIds == 1..Len(Catalog)

\* the collection names a caller may pass, and None
CollectionArgs == {CollectionName(VideoAt(id).title) : id \in CatalogIds} \cup {None}

AddTranscriptCall(id, add_ok) ==
    LET td == TranscriptOf(id)
        added == add_transcript(td, add_ok, store, current_collection)
        name == CollectionName(td.title)
    IN /\ store' = added.store
       /\ current_collection' = added.current
       /\ last' = [op |-> "add_transcript", td |-> td, ret |-> added.ret,
                   again |-> name \in DOMAIN store /\ store[name] = TranscriptDocs(td)]
       /\ UNCHANGED <<hashseed, embedding_model, transcripts, sessionvars, stepvars>>

SearchCall(query, collection_name) ==
    /\ \E r \in search(query, collection_name, store, current_collection) :
         last' = [op |-> "search", arg |-> collection_name, read |-> r.read,
                  ret |-> r.ret]
    /\ UNCHANGED <<dbvars, transcripts, sessionvars, stepvars>>

DeleteCollectionCall(collection_name) ==
    LET deleted == delete_collection(collection_name, store, current_collection)
    IN /\ store' = deleted.store
       /\ current_collection' = deleted.current
       /\ last' = [op |-> "delete_collection", arg |-> collection_name,
                   ret |-> deleted.ret]
       /\ UNCHANGED <<hashseed, embedding_model, transcripts, sessionvars, stepvars>>

NextDB ==
    \/ \E id \in CatalogIds, add_ok \in BOOLEAN : AddTranscriptCall(id, add_ok)
    \/ \E query \in Prompts, collection_name \in CollectionArgs :
         SearchCall(query, collection_name)
    \/ \E collection_name \in CollectionArgs : DeleteCollectionCall(collection_name)

SpecDB == Init /\ [][NextDB]_vars

-----------------------------------------------------------------------------
(* add_transcript taken call by call, with the searches of other sessions  *)
(* Every session builds its own VectorDBManager over the one store at      *)
(* CHROMA_DB_PATH; nothing in vector_db.py locks it.                       *)

\* add_transcript up to its first client call; it returns at once without a model
AddBegin(id, add_ok) ==
    /\ pc = None
    /\ embedding_model
    /\ LET td == TranscriptOf(id)
           name == CollectionName(td.title)
       IN pc' = [op |-> "add_transcript", at |-> "delete", td |-> td,
                 add_ok |-> add_ok, name |-> name,
                 before |-> IF name \in DOMAIN store THEN <<store[name]>> ELSE None]
    /\ UNCHANGED <<dbvars, transcripts, sessionvars, processing, last>>

\* try: self.client.delete_collection(collection_name) except: pass
AddDeleteExisting ==
    /\ pc # None /\ pc.op = "add_transcript" /\ pc.at = "delete"
    /\ store' = ClientDelete(store, pc.name)
    /\ pc' = [pc EXCEPT !.at = "create"]
    /\ UNCHANGED <<hashseed, embedding_model, current_collection, transcripts,
                   sessionvars, processing, last>>

\* collection = self.client.get_or_create_collection(name=collection_name)
AddGetOrCreate ==
    /\ pc # None /\ pc.op = "add_transcript" /\ pc.at = "create"
    /\ store' = ClientGetOrCreate(store, pc.name)
    /\ pc' = [pc EXCEPT !.at = "add"]
    /\ UNCHANGED <<hashseed, embedding_model, current_collection, transcripts,
                   sessionvars, processing, last>>

\* what the collection holds once this add_transcript has returned
AfterIngestion(td, add_ok) ==
    IF ~IsBlank(td.transcript) /\ add_ok THEN TranscriptDocs(td) ELSE {}

\* the rest of add_transcript: the blank test, the chunks, collection.add, the return
AddDocuments ==
    /\ pc # None /\ pc.op = "add_transcript" /\ pc.at = "add"
    /\ LET docs == TranscriptDocs(pc.td) IN
       IF IsBlank(pc.td.transcript) \/ docs = {} \/ ~pc.add_ok
       THEN UNCHANGED <<store, current_collection>>
       ELSE /\ store' = [n \in DOMAIN store \cup {pc.name} |->
                           IF n = pc.name
                           THEN CollectionAdd(IF n \in DOMAIN store THEN store[n] ELSE {},
                                              docs)
                           ELSE store[n]]
            /\ current_collection' = pc.name
    /\ pc' = None
    /\ UNCHANGED <<hashseed, embedding_model, transcripts, sessionvars, processing, last>>

NextConc ==
    \/ \E id \in CatalogIds, add_ok \in BOOLEAN : AddBegin(id, add_ok)
    \/ AddDeleteExisting
    \/ AddGetOrCreate
    \/ AddDocuments
    \/ \E query \in Prompts, collection_name \in CollectionArgs \ {None} :
         SearchCall(query, collection_name)

SpecConc == Init /\ [][NextConc]_vars

-----------------------------------------------------------------------------
(* The process restarted over the files it left on disk *)

\* a new run of the app: Python draws a new salt for hash() of str (nothing
\* sets PYTHONHASHSEED), load_embedding_model runs again, the session starts
\* empty; the chroma store and the transcript files are on disk and stay
Restart ==
    /\ hashseed' \in HashSeeds
    /\ embedding_model' \in BOOLEAN
    /\ current_collection' = None
    /\ processed_videos' = <<>>
    /\ current_video' = None
    /\ session_collection' = None
    /\ chat_history' = <<>>
    /\ processing' = FALSE
    /\ pc' = None
    /\ last' = [op |-> "restart"]
    /\ UNCHANGED <<store, transcripts>>

NextRestart ==
    \/ \E id \in CatalogIds, add_ok \in BOOLEAN : AddTranscriptCall(id, add_ok)
    \/ \E query \in Prompts, collection_name \in CollectionArgs :
         SearchCall(query, collection_name)
    \/ Restart

SpecRestart == Init /\ [][NextRestart]_vars

-----------------------------------------------------------------------------
(* Conversations of several questions, over a library of two videos *)

\* the videos processed in the conversation specifications
ChatVideos == {1, 2}

NextAsk ==
    \/ \E id \in ChatVideos, add_ok \in BOOLEAN :
         ProcessVideo(WatchUrl(id), "ok", TRUE, "ok", add_ok)
    \/ \E i \in 1..LibraryCap : DeleteVideo(i)
    \/ \E prompt \in Prompts, llm \in LLMOutcomes : AskWithin(AskTurns, prompt, llm)
    \/ ClearChat

SpecAsk == Init /\ [][NextAsk]_vars

\* a long conversation about one video, the model answering or timing out
LongChatVideos == {2}
LongChatOutcomes == {"answer", "timeout"}

NextChat ==
    \/ \E id \in LongChatVideos : ProcessVideo(WatchUrl(id), "ok", TRUE, "ok", TRUE)
    \/ \E i \in 1..LibraryCap : DeleteVideo(i)
    \/ \E prompt \in Prompts, llm \in LongChatOutcomes :
         AskWithin(MaxLongChat, prompt, llm)
    \/ ClearChat

SpecChat == Init /\ [][NextChat]_vars

OldestTurns(history) ==
    SubSeq(history, 1, Min(Len(history), MAX_CHAT_HISTORY))

\* display_chat_interface: st.session_state.chat_history[-MAX_CHAT_HISTORY:],
\* a slice that starts MAX_CHAT_HISTORY places before the end, or at the start
\* of a shorter list
RenderedHistory(history) ==
    LET start == IF Len(history) - MAX_CHAT_HISTORY > 0
                 THEN Len(history) - MAX_CHAT_HISTORY ELSE 0
    IN SubSeq(history, start + 1, Len(history))

\* the chat messages on the page after the last script run: the history loop,
\* and in the run that handled a question the two st.chat_message blocks
\* handle_user_message writes below it for the turns it appends
ChatPage ==
    IF current_video = None THEN <<>>
    ELSE IF last.op = "ask"
    THEN RenderedHistory(SubSeq(chat_history, 1, Len(chat_history) - 2))
         \o SubSeq(chat_history, Len(chat_history) - 1, Len(chat_history))
    ELSE RenderedHistory(chat_history)

-----------------------------------------------------------------------------
(* TranscriptionService called directly, for any video of the catalogue *)

TranscribeCall(id, tr) ==
    LET video_info == get_video_info(WatchUrl(id), "ok")
        t == transcribe_audio(id, video_info, tr, transcripts)
    IN /\ transcripts' = t.files
       /\ last' = [op |-> "transcribe_audio", requested |-> video_info.title,
                   data |-> t.data]
       /\ UNCHANGED <<dbvars, sessionvars, stepvars>>

NextTranscribe ==
    \E id \in CatalogIds, tr \in {"ok", "error"} : TranscribeCall(id, tr)

SpecTranscribe == Init /\ [][NextTranscribe]_vars

-----------------------------------------------------------------------------
(* process_video taken statement by statement, with st.session_state.processing *)

\* the URLs pasted in this specification: one video, and a malformed URL
ProcUrls == {WatchUrl(1), [shape |-> "other", id |-> 0]}

\* the statements of the try block at which process_video can be
ProcStages == {"info", "download", "transcribe", "index", "register"}

InTry == pc # None /\ pc.op = "process_video" /\ pc.at \in ProcStages

\* process_video has left the try block with this outcome; finally is still to run
Leave(outcome) == pc' = [op |-> "process_video", at |-> "finally", outcome |-> outcome]

\* the Process Video button (disabled while processing) and the first statement
ProcStart(youtube_url) ==
    /\ pc = None
    /\ ~processing
    /\ processing' = TRUE
    /\ pc' = [op |-> "process_video", at |-> "info", youtube_url |-> youtube_url]
    /\ UNCHANGED <<dbvars, transcripts, sessionvars, last>>

\* Step 1: get_video_info, and the return when it failed
ProcInfo(ydl) ==
    /\ InTry /\ pc.at = "info"
    /\ LET video_info == get_video_info(pc.youtube_url, ydl) IN
       IF ~video_info.success THEN Leave("info")
       ELSE pc' = [op |-> "process_video", at |-> "download",
                   youtube_url |-> pc.youtube_url, video_info |-> video_info]
    /\ UNCHANGED <<dbvars, transcripts, sessionvars, processing, last>>

\* Step 2: download_audio
ProcDownload(dl) ==
    /\ InTry /\ pc.at = "download"
    /\ LET audio_result == download_audio(pc.youtube_url, dl) IN
       IF ~audio_result.success THEN Leave("download")
       ELSE pc' = [op |-> "process_video", at |-> "transcribe",
                   youtube_url |-> pc.youtube_url, video_info |-> pc.video_info,
                   audio_path |-> audio_result.audio_path]
    /\ UNCHANGED <<dbvars, transcripts, sessionvars, processing, last>>

\* Step 3: transcribe_audio
ProcTranscribe(tr) ==
    /\ InTry /\ pc.at = "transcribe"
    /\ LET t == transcribe_audio(pc.audio_path, pc.video_info, tr, transcripts) IN
       IF t.data.error THEN Leave("transcribe") /\ UNCHANGED transcripts
       ELSE /\ transcripts' = t.files
            /\ pc' = [op |-> "process_video", at |-> "index",
                      youtube_url |-> pc.youtube_url, video_info |-> pc.video_info,
                      transcript_data |-> t.data]
    /\ UNCHANGED <<dbvars, sessionvars, processing, last>>

\* Step 4: add_transcript
ProcIndex(add_ok) ==
    /\ InTry /\ pc.at = "index"
    /\ LET added == add_transcript(pc.transcript_data, add_ok, store, current_collection) IN
       /\ store' = added.store
       /\ current_collection' = added.current
       /\ IF ~IndexCreated(added.ret) THEN Leave("index")
          ELSE pc' = [op |-> "process_video", at |-> "register",
                      youtube_url |-> pc.youtube_url, video_info |-> pc.video_info,
                      transcript_data |-> pc.transcript_data,
                      collection_name |-> added.ret]
    /\ UNCHANGED <<hashseed, embedding_model, transcripts, sessionvars, processing, last>>

\* the session update: the entry, the active collection, the eviction, the chat
ProcRegister ==
    /\ InTry /\ pc.at = "register"
    /\ LET processed_video == [title |-> pc.video_info.title,
                               uploader |-> pc.video_info.uploader,
                               url |-> pc.youtube_url,
                               word_count |-> pc.transcript_data.word_count,
                               collection_id |-> pc.collection_name]
           evict == EvictionNeeded(processed_videos)
           deleted == IF evict
                      THEN delete_collection(Head(processed_videos).collection_id,
                                             store, current_collection)
                      ELSE [ret |-> FALSE, store |-> store, current |-> current_collection]
           kept == IF evict THEN Tail(processed_videos) ELSE processed_videos
       IN /\ session_collection' = pc.collection_name
          /\ store' = deleted.store
          /\ current_collection' = deleted.current
          /\ processed_videos' = Append(kept, processed_video)
          /\ current_video' = <<processed_video>>
          /\ chat_history' = ClearedHistory(chat_history)
    /\ Leave("ready")
    /\ UNCHANGED <<hashseed, embedding_model, transcripts, processing, last>>

\* a statement of the try block raises: the except clause reports it
ProcRaise ==
    /\ InTry
    /\ Leave("exception")
    /\ UNCHANGED <<dbvars, transcripts, sessionvars, processing, last>>

FlagAfterTry(outcome) == outcome # "ready"

\* finally: st.session_state.processing = False
FlagAfter(outcome) == FALSE

\* the finally clause, and process_video is over
ProcFinally ==
    /\ pc # None /\ pc.op = "process_video" /\ pc.at = "finally"
    /\ processing' = FlagAfter(pc.outcome)
    /\ pc' = None
    /\ last' = [op |-> "process_video", stage |-> pc.outcome]
    /\ UNCHANGED <<dbvars, transcripts, sessionvars>>

\* the statements of a process_video that has begun
ProcSteps ==
    \/ \E ydl \in YdlOutcomes : ProcInfo(ydl)
    \/ \E dl \in BOOLEAN : ProcDownload(dl)
    \/ \E tr \in {"ok", "error"} : ProcTranscribe(tr)
    \/ \E add_ok \in BOOLEAN : ProcIndex(add_ok)
    \/ ProcRegister
    \/ ProcRaise
    \/ ProcFinally

NextProc ==
    \/ \E youtube_url \in ProcUrls : ProcStart(youtube_url)
    \/ ProcSteps

\* the script thread runs a process_video that has begun to its end: every
\* collaborator call returns or raises (the POSTs and yt-dlp have timeouts)
SpecProc == Init /\ [][NextProc]_vars /\ WF_vars(ProcSteps)

-----------------------------------------------------------------------------
(* download_audio taken one format strategy at a time *)

\* download_audio: format_strategies
format_strategies ==
    <<"bestaudio[ext=m4a]/bestaudio[ext=webm]/bestaudio", "bestaudio/best",
      "best[height<=720]", "worstaudio/worst">>

\* what one strategy does: the file is at the prepared name; it is there under
\* another extension; extract_info returned and no file is found; extract_info raised
StrategyOutcomes == {"file", "alt_file", "missing", "error"}

ProducedAtName(outcome) == outcome = "file"

\* os.path.exists(audio_file), or os.path.exists(alt_file) for .mp3, .m4a, .webm
Produced(outcome) == outcome \in {"file", "alt_file"}

\* the exception a strategy without a file ends with
StrategyError(outcome) ==
    IF outcome = "missing" THEN "Downloaded file not found" ELSE "DownloadError"

\* download_audio up to the loop over format_strategies
DownloadStart(youtube_url) ==
    /\ pc = None
    /\ pc' = [op |-> "download_audio", at |-> "loop", youtube_url |-> youtube_url,
              i |-> 1, log |-> <<>>]
    /\ UNCHANGED <<dbvars, transcripts, sessionvars, processing, last>>

\* one turn of the loop: the strategy's try block and its except clause
TryStrategy(outcome) ==
    /\ pc # None /\ pc.op = "download_audio" /\ pc.at = "loop"
    /\ LET log == Append(pc.log, [format |-> format_strategies[pc.i], outcome |-> outcome])
       IN IF Produced(outcome)
          THEN /\ pc' = None
               /\ last' = [op |-> "download_audio", youtube_url |-> pc.youtube_url,
                           log |-> log,
                           ret |-> [success |-> TRUE, audio_path |-> pc.youtube_url.id,
                                    strategy_used |-> pc.i]]
          ELSE /\ UNCHANGED last
               /\ IF pc.i = Len(format_strategies)
                  THEN pc' = [op |-> "download_audio", at |-> "except",
                              youtube_url |-> pc.youtube_url, log |-> log,
                              e |-> StrategyError(outcome)]
                  ELSE pc' = [pc EXCEPT !.i = pc.i + 1, !.log = log]
    /\ UNCHANGED <<dbvars, transcripts, sessionvars, processing>>

\* the outer except clause, reached by the last strategy's raise
DownloadExcept ==
    /\ pc # None /\ pc.op = "download_audio" /\ pc.at = "except"
    /\ pc' = None
    /\ last' = [op |-> "download_audio", youtube_url |-> pc.youtube_url, log |-> pc.log,
                ret |-> [success |-> FALSE, error |-> pc.e]]
    /\ UNCHANGED <<dbvars, transcripts, sessionvars, processing>>

NextDownload ==
    \/ \E id \in VideoIds : DownloadStart(WatchUrl(id))
    \/ \E outcome \in StrategyOutcomes : TryStrategy(outcome)
    \/ DownloadExcept

SpecDownload == Init /\ [][NextDownload]_vars

-----------------------------------------------------------------------------
(* Properties *)

Entries == {processed_videos[i] : i \in 1..Len(processed_videos)}

\* the last step was a process_video that registered the video
Registered(l) == l.op = "process_video" /\ l.stage = "ready"

\* C1: for any two library entries of different videos, the collection the
\* first points at holds no document whose video_title is the second's title.
C1_Isolation ==
    \A a, b \in Entries :
        (a.url # b.url /\ a.title # b.title /\ a.collection_id \in DOMAIN store)
        => \A d \in store[a.collection_id] : d.metadata.video_title # b.title

\* C2, as claimed: whatever its collection argument, None included, search
\* reads the collection it was given and no other.
C2_NeverFallsBack ==
    last.op = "search" => last.read \in {None, last.arg}

\* C2, amended: given a collection name, search reads that collection only and
\* returns documents of it, whatever the manager's current_collection; given
\* None, it reads the manager's current_collection only.
C2_ReadsResolvedCollection ==
    last.op = "search" =>
        /\ last.arg # None => last.read \in {None, last.arg}
        /\ last.arg = None => last.read \in {None, current_collection}
        /\ last.ret # None =>
              /\ last.read \in DOMAIN store
              /\ last.ret[1].documents[1] \subseteq store[last.read]

C2_Witness ==
    /\ last.op = "search"
    /\ last.arg # None
    /\ current_collection \notin {None, last.arg}
    /\ current_collection \in DOMAIN store
    /\ last.ret # None
    /\ last.ret[1].documents[1] # {}

\* C3: a successful ingestion into a full library removes exactly the first
\* entry, keeps the other four in order and appends the new one; afterwards the
\* evicted entry's collection is gone and the collections of the five entries
\* now listed are present.
C3_CapacityEviction ==
    [][ (Len(processed_videos) = LibraryCap /\ Registered(last'))
        => /\ Len(processed_videos') = LibraryCap
           /\ SubSeq(processed_videos', 1, LibraryCap - 1) = Tail(processed_videos)
           /\ <<processed_videos'[LibraryCap]>> = current_video'
           /\ Head(processed_videos).collection_id \notin DOMAIN store'
           /\ \A k \in 1..LibraryCap :
                 processed_videos'[k].collection_id \in DOMAIN store' ]_vars

\* C4: the library never holds more than 5 entries.
C4_LibraryBounded == Len(processed_videos) <= LibraryCap

C4_Witness ==
    /\ Registered(last)
    /\ last.evicted
    /\ Len(processed_videos) = LibraryCap

\* C5: an ingestion whose transcript is empty or whitespace-only fails, adds
\* no library entry and leaves the store exactly as it was.
C5_BlankLeavesStore ==
    [][ (last'.op = "process_video" /\ last'.stage = "index" /\ last'.why = "blank")
        => /\ processed_videos' = processed_videos
           /\ store' = store ]_vars

\* C6: after a successful ingestion the collection holds exactly the chunks of
\* that one ingestion, each id once, whatever the collection of that name held
\* before (the same transcript's chunks, in particular).
C6_IdempotentReingestion ==
    (last.op = "add_transcript" /\ last.ret # None) =>
        /\ last.ret \in DOMAIN store
        /\ store[last.ret] = TranscriptDocs(last.td)
        /\ \A d, e \in store[last.ret] : d.id = e.id => d = e

C6_Witness ==
    /\ last.op = "add_transcript"
    /\ last.ret # None
    /\ last.again
    /\ Cardinality(store[last.ret]) > 1

\* C7: generate_response is never called with an empty context: a question
\* whose search yields no document gets the canned answer.
C7_NoEmptyContext ==
    last.op = "ask" => (last.generated => last.context # {})

\* C8: deleting a library entry deletes its collection and removes the entry;
\* the active video and collection are cleared exactly when the entry was the
\* active video, and otherwise stay as they were with the active collection
\* still in the store.
C8_ExplicitRemoval ==
    [][ last'.op = "delete_video" =>
        LET video == last'.video IN
        /\ video.collection_id \notin DOMAIN store'
        /\ processed_videos' = ListRemove(processed_videos, video)
        /\ IF current_video = <<video>>
           THEN current_video' = None /\ session_collection' = None
           ELSE /\ current_video' = current_video
                /\ session_collection' = session_collection
                /\ session_collection \in DOMAIN store
                      => session_collection' \in DOMAIN store' ]_vars

\* C9: whenever another video becomes the active video, or the active
\* collection id changes to a new one, the chat history is empty afterwards.
C9_ChatClearedOnActivation ==
    [][ ( \/ (current_video' # current_video /\ current_video' # None)
          \/ (session_collection' # session_collection /\ session_collection' # None) )
        => chat_history' = <<>> ]_vars

C9_Witness ==
    /\ Registered(last)
    /\ last.cleared > 0
    /\ Len(processed_videos) > 1
    /\ chat_history = <<>>

\* C10: a process_video in which a step fails (video info, download,
\* transcription, or no collection from add_transcript) leaves the library, the
\* active video, the active collection id and the chat history as they were.
C10_FailedIngestionKeepsSession ==
    [][ (last'.op = "process_video" /\ ~(Registered(last') /\ last'.collection # None))
        => UNCHANGED <<processed_videos, current_video, session_collection,
                       chat_history>> ]_vars

C10_Witness ==
    /\ last.op = "process_video"
    /\ last.stage = "index"
    /\ processed_videos # <<>>
    /\ current_video # None
    /\ chat_history # <<>>

\* C11: a search of a collection made while an ingestion into that collection
\* is in flight sees what the collection held before the ingestion began or
\* what it holds once the ingestion has returned: never the collection
\* missing after its delete, nor empty before its documents are added.
C11_AtomicIngestion ==
    [][(pc # None /\ pc' = pc /\ last'.op = "search" /\ last'.arg = pc.name) =>
          \/ pc.before = None /\ last'.ret = None
          \/ /\ pc.before # None /\ last'.ret # None
             /\ last'.ret[1].documents[1] \in QueryHits(pc.before[1], n_results)
          \/ /\ last'.ret # None
             /\ last'.ret[1].documents[1] \in
                    QueryHits(AfterIngestion(pc.td, pc.add_ok), n_results)]_vars

\* C12: the collection name is a function of the sanitized title alone, the
\* same in every ingestion and every run of the process: all the documents
\* ever stored for one sanitized title are in one collection, the one a later
\* ingestion of that title replaces.
C12_StableName ==
    \A n1, n2 \in DOMAIN store :
        \A d1 \in store[n1], d2 \in store[n2] :
            SafeTitle(d1.metadata.video_title) = SafeTitle(d2.metadata.video_title)
            => n1 = n2

\* C13: while the embedding model is unavailable, add_transcript returns
\* failure without creating, deleting or changing any collection, and search
\* returns failure without reading any collection.
C13_BlockedWithoutModel ==
    [][~embedding_model =>
          /\ last'.op = "add_transcript" =>
                /\ last'.ret = None
                /\ store' = store
                /\ current_collection' = current_collection
          /\ last'.op = "search" => last'.ret = None /\ last'.read = None]_vars

\* C14: delete_collection returns a boolean and leaves the name absent from
\* the store; on a name that is not in the store it changes neither the store
\* nor the manager's current collection, so a second delete changes nothing
\* more; a search on an absent name misses, and a name comes back into the
\* store only by an ingestion.
C14_DeleteIdempotent ==
    [][/\ last'.op = "delete_collection" =>
            LET again == delete_collection(last'.arg, store', current_collection')
            IN /\ last'.ret \in BOOLEAN
               /\ last'.arg \notin DOMAIN store'
               /\ last'.arg \notin DOMAIN store =>
                     store' = store /\ current_collection' = current_collection
               /\ again.store = store' /\ again.current = current_collection'
       /\ (last'.op = "search" /\ last'.arg # None /\ last'.arg \notin DOMAIN store)
            => last'.ret = None
       /\ DOMAIN store' \ DOMAIN store # {} => last'.op = "add_transcript"]_vars

\* a delete of a name that is not in the store, while other collections exist
\* and one of them is current
C14_Witness ==
    /\ last.op = "delete_collection"
    /\ last.ret = FALSE
    /\ last.arg # None
    /\ current_collection # None
    /\ current_collection \in DOMAIN store

\* the turns of history are a user turn, an assistant turn, a user turn, ...
Alternates(history) ==
    /\ Len(history) % 2 = 0
    /\ \A i \in 1..Len(history) :
          history[i].role = IF i % 2 = 1 THEN "user" ELSE "assistant"

\* C15: every handled question appends to the chat history exactly one user
\* turn followed by exactly one assistant turn, whatever search and
\* generate_response did; the history alternates user/assistant and its
\* length is even.
C15_OneAnswerPerQuestion ==
    [][/\ Alternates(chat_history')
       /\ last'.op = "ask" =>
            /\ Len(chat_history') = Len(chat_history) + 2
            /\ SubSeq(chat_history', 1, Len(chat_history)) = chat_history
            /\ chat_history'[Len(chat_history) + 1].role = "user"
            /\ chat_history'[Len(chat_history) + 2].role = "assistant"]_vars

\* a second question answered without a search result, after a first one
\* that the model answered with an error string
C15_Witness ==
    /\ last.op = "ask"
    /\ ~last.generated
    /\ Len(chat_history) = 4
    /\ chat_history[2].content = "Error: Request timed out."
    /\ chat_history[4].content = NoInfo

MostRecent(turns, history) ==
    /\ Len(turns) <= Len(history)
    /\ \A i \in 1..Len(turns) : turns[i] = history[Len(history) - Len(turns) + i]

\* C17, as claimed: in every state the chat turns on the page number at most
\* MAX_CHAT_HISTORY and are the most recent turns of the stored history, in
\* their order.
C17_AtMostMaxRendered ==
    Len(ChatPage) <= MAX_CHAT_HISTORY /\ MostRecent(ChatPage, chat_history)

\* C17, amended: the history loop renders the MAX_CHAT_HISTORY most recent
\* turns of the stored history (all of a shorter one) in their order; the page
\* shows the most recent turns in order too, over MAX_CHAT_HISTORY of them
\* only in the run that handled a question, by that question's two turns.
C17_WindowOfHistory ==
    /\ Len(RenderedHistory(chat_history)) = Min(Len(chat_history), MAX_CHAT_HISTORY)
    /\ MostRecent(RenderedHistory(chat_history), chat_history)
    /\ MostRecent(ChatPage, chat_history)
    /\ Len(ChatPage) <= MAX_CHAT_HISTORY + 2
    /\ Len(ChatPage) > MAX_CHAT_HISTORY => last.op = "ask"

\* a stored history longer than the window, whose oldest turns differ from
\* its newest, right after a question
C17_Witness ==
    /\ Len(chat_history) > MAX_CHAT_HISTORY
    /\ last.op = "ask"
    /\ chat_history[2] # chat_history[Len(chat_history)]
    /\ Len(ChatPage) = MAX_CHAT_HISTORY + 2

\* C18: every library entry's collection_id, and the active collection id
\* while a video is active, names a collection that is in the store and holds
\* documents.
C18_EntriesIndexed ==
    /\ \A e \in Entries :
          e.collection_id \in DOMAIN store /\ store[e.collection_id] # {}
    /\ current_video # None =>
          session_collection \in DOMAIN store /\ store[session_collection] # {}

\* C19: whenever transcribe_audio returns a transcript, fresh or from the
\* cache, its title is the title of the video_info it was called with.
C19_OwnTranscript ==
    (last.op = "transcribe_audio" /\ ~last.data.error)
    => last.data.title = last.requested

\* C20: processing is True from the start of process_video to its end and
\* False once it has ended, whichever way it ended: registered, an early
\* return after a failed step, or an exception; and it never stays True
\* forever.
C20_ProcessingReset ==
    /\ [](pc # None => processing)
    /\ [](pc = None => ~processing)
    /\ processing ~> ~processing

\* a process_video that ended by an exception, the flag down again
C20_Witness ==
    /\ last.op = "process_video"
    /\ last.stage = "exception"
    /\ pc = None
    /\ ~processing

\* the strategies of log are the first Len(log) format strategies, in their
\* order, and all but the last of them ended without a file
TriedInOrder(log) ==
    /\ Len(log) <= Len(format_strategies)
    /\ \A j \in 1..Len(log) : log[j].format = format_strategies[j]
    /\ \A j \in 1..(Len(log) - 1) : log[j].outcome \in {"missing", "error"}

\* C21: download_audio tries the format strategies in their order, the next
\* one only after the one before it ended without a file; it stops at the
\* first strategy that leaves an audio file and returns success with that
\* file's path; when all four fail it returns {'success': False, 'error': ...};
\* it always ends by returning a value.
C21_StrategiesInOrder ==
    /\ (pc # None /\ pc.op = "download_audio") =>
          /\ TriedInOrder(pc.log)
          /\ \A j \in 1..Len(pc.log) : pc.log[j].outcome \in {"missing", "error"}
          /\ pc.at = "loop" => Len(pc.log) = pc.i - 1
          /\ pc.at = "except" => Len(pc.log) = Len(format_strategies)
    /\ last.op = "download_audio" =>
          LET tried == Len(last.log)
              final == last.log[tried].outcome
          IN /\ tried >= 1
             /\ TriedInOrder(last.log)
             /\ last.ret.success \in BOOLEAN
             /\ last.ret.success <=> final \in {"file", "alt_file"}
             /\ last.ret.success =>
                   /\ last.ret.audio_path = last.youtube_url.id
                   /\ last.ret.strategy_used = tried
             /\ ~last.ret.success =>
                   /\ tried = Len(format_strategies)
                   /\ last.ret.error \in {"Downloaded file not found", "DownloadError"}

\* the third strategy left a file under another extension after two failures
C21_Witness ==
    /\ last.op = "download_audio"
    /\ last.ret.success
    /\ Len(last.log) = 3
    /\ last.log[1].outcome = "error"
    /\ last.log[2].outcome = "missing"
    /\ last.log[3].outcome = "alt_file"

=============================================================================
